---- MODULE Spec2Model ----
(***************************************************************************)
(* Model of the two upload handlers of handler_upload_thumbnail.go:        *)
(* handlerUploadThumbnail and handlerUploadVideo, with the metadata store, *)
(* the assets directory, the temp directory and the bucket they act on.    *)
(*                                                                         *)
(* Strings are modelled as sequences of tokens, so that concatenation      *)
(* (\o), strings.Split and mime.ParseMediaType are computed, not assumed.  *)
(* A byte stream is a record [src, len]: the first len bytes of the        *)
(* stream named src.                                                       *)
(***************************************************************************)
EXTENDS Integers, Sequences, FiniteSets, TLC

\* ---------------------------------------------------------------- bounds
\* Requests each handler serves in one behaviour.
MaxRuns == 1
\* Longest stream list an ffprobe output carries in the model.
MaxStreams == 1

\* ------------------------------------------------------ program constants
maxMemory == 10485760
defaultMaxMemory == 33554432
MaxUploadBytes == 1073741824
StatusOK == 200
StatusBadRequest == 400
StatusUnauthorized == 401
StatusInternalServerError == 500
\* r.Body as the server hands it to a handler: no limit on the bytes read.
NoLimit == -1

\* ---------------------------------------------------------- configuration
cfgPort == <<"8091">>
cfgS3Bucket == "bucket"
cfgS3CfDistribution == <<"https://cdn.example">>

\* ------------------------------------------------------------ byte streams
EmptyContent == [src |-> "", len |-> 0]
\* The first n bytes of stream c.
Prefix(c, n) == IF n = 0 THEN EmptyContent ELSE [src |-> c.src, len |-> n]
Upload(n) == Prefix([src |-> "upload", len |-> n], n)
\* What ffmpeg -movflags faststart writes for input c, and a truncated output.
FastStart(c) == [src |-> "faststart", len |-> c.len]
PartialOutput == [src |-> "faststart", len |-> 1]

Min(a, b) == IF a <= b THEN a ELSE b
\* The stricter of two limits on a reader.
Tighter(a, b) == IF a = NoLimit THEN b ELSE IF b = NoLimit THEN a ELSE Min(a, b)

\* Counts of bytes a write of n bytes can stop at before failing.
ShortCounts(n) == {k \in {0, 1, maxMemory + 1} : k < n}

\* --------------------------------------------------------------- requests
VideoIDStrings == {"v1", "v2", "not-a-uuid"}
AuthHeaders == {<<>>, <<"Bearer ", "garbage">>, <<"Bearer ", "jwt-u1">>, <<"Bearer ", "jwt-u2">>}
ContentTypes ==
  { <<"image", "/", "jpeg">>,
    <<"image", "/", "png">>,
    <<"IMAGE", "/", "PNG">>,
    <<"image", "/", "png", ";", "charset=utf-8">>,
    <<"image", "/", "png", ";", "charset">>,
    <<"image", "/", "gif">>,
    <<>>,
    <<"video", "/", "mp4">>,
    <<"video", "/", "mp4", ";", "codecs=avc1">>,
    <<"video", "/", "webm">> }
FieldNames == {"thumbnail", "video"}
\* A multipart form: malformed, or one file part under a field name.
Forms == [malformed : {FALSE}, field : FieldNames, header : ContentTypes]
           \cup {[malformed |-> TRUE, field |-> "", header |-> <<>>]}
NoForm == [malformed |-> TRUE, field |-> "", header |-> <<>>]
Requests == [videoIDString : VideoIDStrings, auth : AuthHeaders, form : Forms]
NoRequest == [videoIDString |-> "", auth |-> <<>>, form |-> NoForm]
\* Requests by the owner of an existing record, carrying the handler's part.
OwnerRequests(field) ==
  {r \in Requests : /\ r.videoIDString = "v1"
                    /\ r.auth = <<"Bearer ", "jwt-u1">>
                    /\ ~r.form.malformed
                    /\ r.form.field = field
                    /\ r.form.header \in {<<"image", "/", "png">>, <<"video", "/", "mp4">>}}

ThumbnailLens == {0, 2, maxMemory + 1}
VideoLens == {0, 2, defaultMaxMemory + 1, MaxUploadBytes + 1}
RandomValues == {"r1", "r2"}

\* ------------------------------------------------------------------- uuid
\* uuid.Parse: the identifiers "v1" and "v2" stand for well-formed UUIDs.
uuidParse(s) == [err |-> s \notin {"v1", "v2"}, id |-> IF s \in {"v1", "v2"} THEN s ELSE ""]

\* ------------------------------------------------------------------- auth
\* auth.GetBearerToken: the Authorization header without its "Bearer " prefix.
GetBearerToken(h) ==
  IF Len(h) = 2 /\ h[1] = "Bearer " THEN [err |-> FALSE, token |-> h[2]]
  ELSE [err |-> TRUE, token |-> ""]
\* auth.ValidateJWT: the subject of a token signed with cfg.jwtSecret.
ValidateJWT(token) ==
  CASE token = "jwt-u1" -> [err |-> FALSE, userID |-> "u1"]
    [] token = "jwt-u2" -> [err |-> FALSE, userID |-> "u2"]
    [] OTHER -> [err |-> TRUE, userID |-> ""]

\* ------------------------------------------------------------------- mime
ToLower(t) ==
  CASE t = "IMAGE" -> "image"
    [] t = "PNG" -> "png"
    [] OTHER -> t
IsParam(t) == t \in {"charset=utf-8", "codecs=avc1"}
RECURSIVE IndexOf(_, _, _)
\* The first index >= i of token t in s, or 0.
IndexOf(s, t, i) ==
  IF i > Len(s) THEN 0 ELSE IF s[i] = t THEN i ELSE IndexOf(s, t, i + 1)
RECURSIVE ParamsOK(_)
\* The parameters after the media type: ";" key=value, repeated.
ParamsOK(rest) ==
  IF rest = <<>> THEN TRUE
  ELSE IF rest = <<";">> THEN TRUE
  ELSE /\ Len(rest) >= 2
       /\ rest[1] = ";"
       /\ IsParam(rest[2])
       /\ ParamsOK(SubSeq(rest, 3, Len(rest)))
\* mime.ParseMediaType: the lower-cased type/subtype before the first ";",
\* an error for an empty value, a missing subtype or a bad parameter.
ParseMediaType(v) ==
  LET semi == IndexOf(v, ";", 1)
      base == IF semi = 0 THEN v ELSE SubSeq(v, 1, semi - 1)
      rest == IF semi = 0 THEN <<>> ELSE SubSeq(v, semi, Len(v))
      lower == [i \in 1..Len(base) |-> ToLower(base[i])]
      shapeOK == \/ Len(base) = 1 /\ base[1] \notin {"/", ";"}
                 \/ /\ Len(base) = 3
                    /\ base[2] = "/"
                    /\ base[1] \notin {"/", ";"}
                    /\ base[3] \notin {"/", ";"}
  IN IF ~shapeOK THEN [err |-> TRUE, mediaType |-> <<>>]
     ELSE IF ~ParamsOK(rest) THEN [err |-> TRUE, mediaType |-> lower]
     ELSE [err |-> FALSE, mediaType |-> lower]

RECURSIVE SplitSlash(_)
\* strings.Split(s, "/"): the pieces of s between its "/" tokens.
SplitSlash(s) ==
  LET i == IndexOf(s, "/", 1)
  IN IF i = 0 THEN <<s>>
     ELSE <<SubSeq(s, 1, i - 1)>> \o SplitSlash(SubSeq(s, i + 1, Len(s)))

\* ----------------------------------------------------------------- base64
\* base64.RawURLEncoding of 32 bytes: 43 characters, no padding.
RawURLEncode(r) == <<r>>
\* base64.URLEncoding of 32 bytes: the same 43 characters and one "=".
URLEncode(r) == <<r, "=">>

\* ---------------------------------------------------------- video records
NoURL == <<>>
NoVideo == [id |-> "", userID |-> "", thumbnailURL |-> NoURL, videoURL |-> NoURL]
OldThumbnailURL == <<"http://localhost:", "8091", "/assets/", "old", ".", "png">>
OldVideoURL == <<"https://cdn.example", "/", "other", "/", "old", "=", ".mp4">>

\* URL of a stored thumbnail: Sprintf("http://localhost:%s/assets/%s", port, fileName).
ThumbnailURL(port, fileName) == <<"http://localhost:">> \o port \o <<"/assets/">> \o fileName

\* ------------------------------------------------------------ metadata store
\* cfg.db.GetVideo: the record stored under id, an error when there is none.
GetVideo(d, id) ==
  IF id \in DOMAIN d THEN [err |-> FALSE, video |-> d[id]]
  ELSE [err |-> TRUE, video |-> NoVideo]
\* An update that is not persisted.
UpdateVideo_Dropped(d, v) == d
\* cfg.db.UpdateVideo: the stored record is replaced by the record passed.
UpdateVideo(d, v) == [d EXCEPT ![v.id] = v]

\* ---------------------------------------------------------------- responses
ErrorBody == [kind |-> "error", video |-> NoVideo]
EmptyJSON == [kind |-> "empty", video |-> NoVideo]
VideoJSON(v) == [kind |-> "video", video |-> v]
NoBody == [kind |-> "none", video |-> NoVideo]
\* respondWithError followed by return.
respondWithError(l, code) == [l EXCEPT !.pc = "done", !.status = code, !.body = ErrorBody]
\* A step that failed, noted for the record of the run.
Failed(l, step) == [l EXCEPT !.failed = @ \cup {step}]

\* ------------------------------------------------------------------- files
\* os.Remove of each path in names.
Remove(fs, names) == [p \in DOMAIN fs \ names |-> fs[p]]
\* A file written (created or replaced) at path p.
WriteFile(fs, p, c) == [q \in DOMAIN fs \cup {p} |-> IF q = p THEN c ELSE fs[q]]

VARIABLES db, assets, tmpfs, bucket, th, vd
vars == <<db, assets, tmpfs, bucket, th, vd>>

\* ------------------------------------------------- handlerUploadThumbnail
ThumbnailLocals ==
  [pc |-> "idle", runs |-> 0, req |-> NoRequest, videoID |-> "", userID |-> "",
   gotPart |-> FALSE, ContentType |-> <<>>, partLen |-> 0, data |-> EmptyContent,
   VideoMeta |-> NoVideo, mediaType |-> <<>>, extension |-> <<>>, fileName |-> <<>>,
   status |-> 0, body |-> NoBody,
   updates |-> 0, created |-> {}, failed |-> {}, read |-> 0, spilled |-> FALSE,
   ownerOK |-> FALSE]

\* A whitelist that lets every image type through.
AllowedThumbnailType_AnyImage(mediaType) == Len(mediaType) >= 1 /\ mediaType[1] = "image"
\* The media types a thumbnail may have (line 77).
AllowedThumbnailType(mediaType) ==
  mediaType = <<"image", "/", "jpeg">> \/ mediaType = <<"image", "/", "png">>

\* Lines 20-37: the path value, the bearer token and its validation.
ThumbnailBegin(reqs, maxRuns) ==
  /\ th.pc \in {"idle", "done"}
  /\ th.runs < maxRuns
  /\ \E r \in reqs :
       LET l == [ThumbnailLocals EXCEPT !.runs = th.runs + 1, !.req = r]
           parsed == uuidParse(r.videoIDString)
           bearer == GetBearerToken(r.auth)
           jwt == ValidateJWT(bearer.token)
       IN th' = IF parsed.err THEN respondWithError(l, StatusBadRequest)
                ELSE IF bearer.err THEN respondWithError(l, StatusUnauthorized)
                ELSE IF jwt.err THEN respondWithError(l, StatusUnauthorized)
                ELSE [l EXCEPT !.pc = "form", !.videoID = parsed.id, !.userID = jwt.userID]
  /\ UNCHANGED <<db, assets, tmpfs, bucket, vd>>

\* Lines 42-51: ParseMultipartForm(maxMemory), its error dropped, then
\* FormFile("thumbnail"). The parser reads the whole part and keeps a part
\* larger than maxMemory in a temporary file of its own.
ThumbnailFormFile ==
  /\ th.pc = "form"
  /\ \E n \in ThumbnailLens :
       LET form == th.req.form
       IN th' = IF form.malformed
                THEN respondWithError(Failed(th, "multipart"), StatusBadRequest)
                ELSE IF form.field # "thumbnail"
                THEN respondWithError([th EXCEPT !.read = n, !.spilled = n > maxMemory],
                                      StatusBadRequest)
                ELSE [th EXCEPT !.pc = "readall", !.gotPart = TRUE,
                                !.ContentType = form.header, !.partLen = n,
                                !.read = n, !.spilled = n > maxMemory]
  /\ UNCHANGED <<db, assets, tmpfs, bucket, vd>>

\* Lines 53-58: the part's Content-Type header and io.ReadAll of the part.
ThumbnailReadAll ==
  /\ th.pc = "readall"
  /\ \E ok \in BOOLEAN :
       th' = IF ok THEN [th EXCEPT !.pc = "getvideo", !.data = Upload(th.partLen)]
             ELSE respondWithError(Failed(th, "read"), StatusInternalServerError)
  /\ UNCHANGED <<db, assets, tmpfs, bucket, vd>>

\* Lines 60-87: the record lookup, the ownership check and the media type checks.
ThumbnailGetVideo ==
  /\ th.pc = "getvideo"
  /\ LET got == GetVideo(db, th.videoID)
         l == [th EXCEPT !.VideoMeta = got.video]
         mt == ParseMediaType(th.ContentType)
         parts == SplitSlash(mt.mediaType)
     IN th' = IF got.err THEN respondWithError(l, StatusInternalServerError)
              ELSE IF got.video.userID # th.userID
              THEN respondWithError(l, StatusUnauthorized)
              ELSE IF mt.err
              THEN respondWithError([l EXCEPT !.ownerOK = TRUE], StatusBadRequest)
              ELSE IF ~AllowedThumbnailType(mt.mediaType)
              THEN respondWithError([l EXCEPT !.ownerOK = TRUE, !.mediaType = mt.mediaType],
                                    StatusBadRequest)
              ELSE IF Len(parts) # 2
              THEN respondWithError([l EXCEPT !.ownerOK = TRUE, !.mediaType = mt.mediaType],
                                    StatusBadRequest)
              ELSE [l EXCEPT !.pc = "rand", !.ownerOK = TRUE, !.mediaType = mt.mediaType,
                             !.extension = parts[2]]
  /\ UNCHANGED <<db, assets, tmpfs, bucket, vd>>

\* Lines 88-96: 32 random bytes, their encoding and the file name.
ThumbnailRand ==
  /\ th.pc = "rand"
  /\ \/ th' = respondWithError(Failed(th, "rand"), StatusInternalServerError)
     \/ \E r \in RandomValues :
          th' = [th EXCEPT !.pc = "create",
                           !.fileName = RawURLEncode(r) \o <<".">> \o th.extension]
  /\ UNCHANGED <<db, assets, tmpfs, bucket, vd>>

\* Lines 97-102: os.Create of the file under the assets root.
ThumbnailCreate ==
  /\ th.pc = "create"
  /\ \/ /\ th' = respondWithError(Failed(th, "create"), StatusInternalServerError)
        /\ UNCHANGED assets
     \/ /\ assets' = WriteFile(assets, th.fileName, EmptyContent)
        /\ th' = [th EXCEPT !.pc = "copy", !.created = @ \cup {th.fileName}]
  /\ UNCHANGED <<db, tmpfs, bucket, vd>>

\* Line 104: io.Copy into the created file; its results are dropped, so a
\* write that stops after k bytes goes on like a complete one.
ThumbnailCopy ==
  /\ th.pc = "copy"
  /\ \/ /\ assets' = WriteFile(assets, th.fileName, th.data)
        /\ th' = [th EXCEPT !.pc = "update"]
     \/ \E k \in ShortCounts(th.data.len) :
          /\ assets' = WriteFile(assets, th.fileName, Prefix(th.data, k))
          /\ th' = [Failed(th, "write") EXCEPT !.pc = "update"]
  /\ UNCHANGED <<db, tmpfs, bucket, vd>>

\* Lines 114-120: the thumbnail URL, set in the record read at line 60, and
\* UpdateVideo of that record.
ThumbnailUpdateVideo ==
  /\ th.pc = "update"
  /\ LET l == [th EXCEPT !.VideoMeta.thumbnailURL = ThumbnailURL(cfgPort, th.fileName),
                         !.updates = @ + 1]
     IN \/ /\ th' = respondWithError(l, StatusInternalServerError)
           /\ UNCHANGED db
        \/ /\ db' = UpdateVideo(db, l.VideoMeta)
           /\ th' = [l EXCEPT !.pc = "respond"]
  /\ UNCHANGED <<assets, tmpfs, bucket, vd>>

\* Line 122: respondWithJSON(w, 200, struct{}{}).
ThumbnailRespond ==
  /\ th.pc = "respond"
  /\ th' = [th EXCEPT !.pc = "done", !.status = StatusOK, !.body = EmptyJSON]
  /\ UNCHANGED <<db, assets, tmpfs, bucket, vd>>

\* --------------------------------------------------------- external tools
AspectRatios == {"16:9", "9:16", "4:3", ""}
\* Stream lists of at most n streams, each by its display_aspect_ratio.
RECURSIVE StreamLists(_)
StreamLists(n) ==
  IF n = 0 THEN {<<>>}
  ELSE StreamLists(n - 1) \cup
       {Append(s, a) : s \in {t \in StreamLists(n - 1) : Len(t) = n - 1}, a \in AspectRatios}
\* What a run of ffprobe gives: its exit code, whether its output is JSON,
\* and the streams the JSON lists.
ProbeOutputs ==
  [exit : {0}, parsable : {TRUE}, streams : StreamLists(MaxStreams)]
    \cup {[exit |-> 1, parsable |-> FALSE, streams |-> <<>>],
          [exit |-> 0, parsable |-> FALSE, streams |-> <<>>]}
NoProbe == [exit |-> 1, parsable |-> FALSE, streams |-> <<>>]

\* getVideoAspectRatio (lines 300-330) on the output of its ffprobe run.
getVideoAspectRatio(out) ==
  IF out.exit # 0 THEN [err |-> TRUE, ratio |-> ""]
  ELSE IF ~out.parsable THEN [err |-> TRUE, ratio |-> ""]
  ELSE IF Len(out.streams) = 0 THEN [err |-> TRUE, ratio |-> ""]
  ELSE [err |-> FALSE, ratio |-> out.streams[1]]

\* The switch with its two cases exchanged.
ChoosePrefix_Swapped(prefix, aspectRation) ==
  CASE aspectRation = "16:9" -> "portrait"
    [] aspectRation = "9:16" -> "landscape"
    [] OTHER -> prefix
\* Lines 227-232: the switch on the aspect ratio; prefix keeps its value
\* when no case matches.
ChoosePrefix(prefix, aspectRation) ==
  CASE aspectRation = "16:9" -> "landscape"
    [] aspectRation = "9:16" -> "portrait"
    [] OTHER -> prefix

\* What a run of ffmpeg leaves: exit 0 with the output written, or a
\* non-zero exit with no output or a truncated one.
RemuxOutcomes == {"ok", "fail", "fail-partial"}

\* processVideoForFastStart (lines 336-345): the output path.
ProcessingName(filePath) == filePath \o <<".processing">>

\* A check that lets every video type through.
IsMP4_AnyVideo(mediaType) == Len(mediaType) >= 1 /\ mediaType[1] = "video"
\* Line 197: the media type a video must have.
IsMP4(mediaType) == mediaType = <<"video", "/", "mp4">>

\* A key built without its prefix.
ObjectKey_NoPrefix(prefix, name) == name \o <<".mp4">>
\* Line 256: the object key.
ObjectKey(prefix, name) == <<prefix>> \o <<"/">> \o name \o <<".mp4">>
\* Line 269: Sprintf("%s/%s", cfg.s3CfDistribution, fileName).
VideoURL(base, fileName) == base \o <<"/">> \o fileName

\* http.MaxBytesReader: a new reader over a body, by the limit on the bytes
\* it lets through; the body passed in keeps its own limit.
MaxBytesReader(bodyLimit, n) == Tighter(bodyLimit, n)

\* ----------------------------------------------------- handlerUploadVideo
VideoLocals ==
  [pc |-> "idle", runs |-> 0, req |-> NoRequest, rBodyLimit |-> NoLimit,
   videoID |-> "", userID |-> "", videoDb |-> NoVideo,
   gotPart |-> FALSE, ContentType |-> <<>>, partLen |-> 0, mediaType |-> <<>>,
   bodyLen |-> 0, storedAtResponse |-> NoVideo,
   tmpName |-> <<>>, probe |-> NoProbe, aspectRation |-> "", prefix |-> "",
   processedFileName |-> <<>>, fileName |-> <<>>,
   status |-> 0, body |-> NoBody,
   updates |-> 0, puts |-> <<>>, tools |-> {}, tmpCreated |-> FALSE, copied |-> 0,
   failed |-> {}, read |-> 0, spilled |-> FALSE, ownerOK |-> FALSE]

\* The deferred os.Remove calls that have been registered when the handler
\* returns: line 207 once the temporary file exists, line 240 once the
\* remux has succeeded.
Deferred(l) ==
  (IF l.tmpName # <<>> THEN {l.tmpName} ELSE {})
    \cup (IF l.processedFileName # <<>> THEN {l.processedFileName} ELSE {})

\* Lines 149-168: the MaxBytesReader call, whose result is dropped, the path
\* value, the bearer token and its validation.
VideoBegin(reqs, maxRuns) ==
  /\ vd.pc \in {"idle", "done"}
  /\ vd.runs < maxRuns
  /\ \E r \in reqs :
       LET dropped == MaxBytesReader(NoLimit, MaxUploadBytes)
           l == [VideoLocals EXCEPT !.runs = vd.runs + 1, !.req = r, !.rBodyLimit = NoLimit]
           parsed == uuidParse(r.videoIDString)
           bearer == GetBearerToken(r.auth)
           jwt == ValidateJWT(bearer.token)
       IN vd' = IF parsed.err THEN respondWithError(l, StatusBadRequest)
                ELSE IF bearer.err THEN respondWithError(l, StatusUnauthorized)
                ELSE IF jwt.err THEN respondWithError(l, StatusUnauthorized)
                ELSE [l EXCEPT !.pc = "getvideo", !.videoID = parsed.id, !.userID = jwt.userID]
  /\ UNCHANGED <<db, assets, tmpfs, bucket, th>>

\* Lines 170-181: the record lookup and the ownership check.
VideoGetVideo ==
  /\ vd.pc = "getvideo"
  /\ LET got == GetVideo(db, vd.videoID)
         l == [vd EXCEPT !.videoDb = got.video]
     IN vd' = IF got.err THEN respondWithError(l, StatusInternalServerError)
              ELSE IF got.video.userID # vd.userID
              THEN respondWithError(l, StatusUnauthorized)
              ELSE [l EXCEPT !.pc = "form", !.ownerOK = TRUE]
  /\ UNCHANGED <<db, assets, tmpfs, bucket, th>>

\* Lines 184-200: FormFile("video"), which parses the form with
\* defaultMaxMemory, and the media type check. A body longer than the limit
\* on r.Body fails the parse.
VideoFormFile ==
  /\ vd.pc = "form"
  /\ \E n \in VideoLens :
       LET form == vd.req.form
           over == vd.rBodyLimit # NoLimit /\ n > vd.rBodyLimit
           got == IF over THEN vd.rBodyLimit ELSE n
           mt == ParseMediaType(form.header)
           l == [vd EXCEPT !.bodyLen = n, !.read = got, !.spilled = got > defaultMaxMemory]
           p == [l EXCEPT !.gotPart = TRUE, !.ContentType = form.header, !.partLen = n]
       IN vd' = IF form.malformed
                THEN respondWithError(Failed(vd, "multipart"), StatusBadRequest)
                ELSE IF over
                THEN respondWithError(Failed(l, "multipart"), StatusBadRequest)
                ELSE IF form.field # "video"
                THEN respondWithError(l, StatusBadRequest)
                ELSE IF mt.err THEN respondWithError(p, StatusBadRequest)
                ELSE IF ~IsMP4(mt.mediaType)
                THEN respondWithError([p EXCEPT !.mediaType = mt.mediaType], StatusBadRequest)
                ELSE [p EXCEPT !.pc = "createtemp", !.mediaType = mt.mediaType]
  /\ UNCHANGED <<db, assets, tmpfs, bucket, th>>

\* Lines 202-208: os.CreateTemp("", "video.mp4"): a new, empty file whose
\* name ends in a random string no file of the directory has.
VideoCreateTemp ==
  /\ vd.pc = "createtemp"
  /\ \/ /\ vd' = respondWithError(Failed(vd, "createtemp"), StatusInternalServerError)
        /\ UNCHANGED tmpfs
     \/ \E r \in RandomValues :
          /\ <<"video.mp4", r>> \notin DOMAIN tmpfs
          /\ tmpfs' = WriteFile(tmpfs, <<"video.mp4", r>>, EmptyContent)
          /\ vd' = [vd EXCEPT !.pc = "copy", !.tmpName = <<"video.mp4", r>>,
                              !.tmpCreated = TRUE]
  /\ UNCHANGED <<db, assets, bucket, th>>

\* Lines 210-214: io.Copy of the part into the temporary file.
VideoCopy ==
  /\ vd.pc = "copy"
  /\ \/ /\ tmpfs' = WriteFile(tmpfs, vd.tmpName, Upload(vd.partLen))
        /\ vd' = [vd EXCEPT !.pc = "seek", !.copied = vd.partLen]
     \/ \E k \in ShortCounts(vd.partLen) :
          LET l == [Failed(vd, "copy") EXCEPT !.copied = k]
          IN /\ tmpfs' = Remove(tmpfs, Deferred(l))
             /\ vd' = respondWithError(l, StatusInternalServerError)
  /\ UNCHANGED <<db, assets, bucket, th>>

\* Line 217: tmpFile.Seek(0, io.SeekStart); its results are dropped.
VideoSeek ==
  /\ vd.pc = "seek"
  /\ \/ vd' = [vd EXCEPT !.pc = "probe"]
     \/ vd' = [Failed(vd, "seek") EXCEPT !.pc = "probe"]
  /\ UNCHANGED <<db, assets, tmpfs, bucket, th>>

\* Lines 221-232: the ffprobe run on the temporary file and the prefix.
VideoProbe ==
  /\ vd.pc = "probe"
  /\ \E out \in ProbeOutputs :
       LET res == getVideoAspectRatio(out)
           l == [vd EXCEPT !.prefix = "other", !.probe = out, !.tools = @ \cup {"ffprobe"}]
       IN IF res.err
          THEN /\ tmpfs' = Remove(tmpfs, Deferred(l))
               /\ vd' = respondWithError(Failed(l, "probe"), StatusInternalServerError)
          ELSE /\ tmpfs' = tmpfs
               /\ vd' = [l EXCEPT !.pc = "remux", !.aspectRation = res.ratio,
                                  !.prefix = ChoosePrefix(l.prefix, res.ratio)]
  /\ UNCHANGED <<db, assets, bucket, th>>

\* Lines 235-240: the ffmpeg run writing <temp>.processing; line 240 defers
\* the removal of the output only when the run exits 0.
VideoRemux ==
  /\ vd.pc = "remux"
  /\ \E outcome \in RemuxOutcomes :
       LET out == ProcessingName(vd.tmpName)
           l == [vd EXCEPT !.tools = @ \cup {"ffmpeg"}]
           written == CASE outcome = "ok" -> WriteFile(tmpfs, out, FastStart(tmpfs[vd.tmpName]))
                        [] outcome = "fail-partial" -> WriteFile(tmpfs, out, PartialOutput)
                        [] OTHER -> tmpfs
       IN /\ outcome = "ok" => out \notin DOMAIN tmpfs
          /\ IF outcome = "ok"
             THEN /\ tmpfs' = written
                  /\ vd' = [l EXCEPT !.pc = "open", !.processedFileName = out]
             ELSE /\ tmpfs' = Remove(written, Deferred(l))
                  /\ vd' = respondWithError(Failed(l, "remux"), StatusInternalServerError)
  /\ UNCHANGED <<db, assets, bucket, th>>

\* Lines 241-245: os.OpenFile of the normalized file.
VideoOpen ==
  /\ vd.pc = "open"
  /\ \/ /\ tmpfs' = Remove(tmpfs, Deferred(vd))
        /\ vd' = respondWithError(Failed(vd, "open"), StatusInternalServerError)
     \/ /\ vd' = [vd EXCEPT !.pc = "rand"]
        /\ UNCHANGED tmpfs
  /\ UNCHANGED <<db, assets, bucket, th>>

\* Lines 249-256: 32 random bytes, their encoding and the object key.
VideoRand ==
  /\ vd.pc = "rand"
  /\ \/ /\ tmpfs' = Remove(tmpfs, Deferred(vd))
        /\ vd' = respondWithError(Failed(vd, "rand"), StatusInternalServerError)
     \/ \E r \in RandomValues :
          /\ vd' = [vd EXCEPT !.pc = "put", !.fileName = ObjectKey(vd.prefix, URLEncode(r))]
          /\ UNCHANGED tmpfs
  /\ UNCHANGED <<db, assets, bucket, th>>

\* Lines 257-266: PutObject of the normalized file under the key.
VideoPutObject ==
  /\ vd.pc = "put"
  /\ LET obj == [bucket |-> cfgS3Bucket, key |-> vd.fileName,
                 contentType |-> vd.mediaType, body |-> tmpfs[vd.processedFileName]]
     IN \/ /\ tmpfs' = Remove(tmpfs, Deferred(vd))
           /\ vd' = respondWithError(Failed(vd, "put"), StatusInternalServerError)
           /\ UNCHANGED bucket
        \/ /\ bucket' = WriteFile(bucket, vd.fileName, obj)
           /\ vd' = [vd EXCEPT !.pc = "update", !.puts = Append(@, obj)]
           /\ UNCHANGED tmpfs
  /\ UNCHANGED <<db, assets, th>>

\* Lines 269-276: the video URL, set in the record read at line 171, and
\* UpdateVideo of that record.
VideoUpdateVideo ==
  /\ vd.pc = "update"
  /\ LET l == [vd EXCEPT !.videoDb.videoURL = VideoURL(cfgS3CfDistribution, vd.fileName),
                         !.updates = @ + 1]
     IN \/ /\ tmpfs' = Remove(tmpfs, Deferred(l))
           /\ vd' = respondWithError(l, StatusInternalServerError)
           /\ UNCHANGED db
        \/ /\ db' = UpdateVideo(db, l.videoDb)
           /\ vd' = [l EXCEPT !.pc = "respond"]
           /\ UNCHANGED tmpfs
  /\ UNCHANGED <<assets, bucket, th>>

\* Lines 284-286: respondWithJSON(w, 200, videoDb) and the deferred removals.
VideoRespond ==
  /\ vd.pc = "respond"
  /\ vd' = [vd EXCEPT !.pc = "done", !.status = StatusOK, !.body = VideoJSON(vd.videoDb),
                      !.storedAtResponse = db[vd.videoID]]
  /\ tmpfs' = Remove(tmpfs, Deferred(vd))
  /\ UNCHANGED <<db, assets, bucket, th>>

VideoStep ==
  \/ VideoGetVideo
  \/ VideoFormFile
  \/ VideoCreateTemp
  \/ VideoCopy
  \/ VideoSeek
  \/ VideoProbe
  \/ VideoRemux
  \/ VideoOpen
  \/ VideoRand
  \/ VideoPutObject
  \/ VideoUpdateVideo
  \/ VideoRespond

\* ------------------------------------------------------------------ system
InitialVideos ==
  {[id |-> "v1", userID |-> "u1", thumbnailURL |-> t, videoURL |-> v] :
     t \in {NoURL, OldThumbnailURL}, v \in {NoURL, OldVideoURL}}

Init ==
  /\ \E v \in InitialVideos : db = [id \in {"v1"} |-> v]
  /\ assets = <<>>
  /\ tmpfs = <<>>
  /\ bucket = <<>>
  /\ th = ThumbnailLocals
  /\ vd = VideoLocals

ThumbnailStep ==
  \/ ThumbnailFormFile
  \/ ThumbnailReadAll
  \/ ThumbnailGetVideo
  \/ ThumbnailRand
  \/ ThumbnailCreate
  \/ ThumbnailCopy
  \/ ThumbnailUpdateVideo
  \/ ThumbnailRespond

\* One thumbnail upload at a time, any request.
NextThumbnail == ThumbnailBegin(Requests, MaxRuns) \/ ThumbnailStep
SpecThumbnail == Init /\ [][NextThumbnail]_vars

\* One video upload at a time, any request.
NextVideo == VideoBegin(Requests, MaxRuns) \/ VideoStep
SpecVideo == Init /\ [][NextVideo]_vars

\* One thumbnail upload and one video upload by the owner of the same
\* record, their steps interleaved in every order.
Next ==
  \/ ThumbnailBegin(OwnerRequests("thumbnail"), 1)
  \/ ThumbnailStep
  \/ VideoBegin(OwnerRequests("video"), 1)
  \/ VideoStep
Spec == Init /\ [][Next]_vars

\* ------------------------------------------------------------------ claims
ThumbnailWhitelist == {<<"image", "/", "jpeg">>, <<"image", "/", "png">>}
\* The request carries a part for the handler's field.
HasPart(req, field) == ~req.form.malformed /\ req.form.field = field
\* The part's content type is unparsable or names a type outside allowed.
TypeOutside(req, allowed) ==
  LET mt == ParseMediaType(req.form.header)
  IN mt.err \/ mt.mediaType \notin allowed
\* The token validated to a user who does not own the stored record.
NonOwner(l) ==
  /\ l.userID # ""
  /\ l.videoID \in DOMAIN db
  /\ db[l.videoID].userID # l.userID
\* The prefix the spec gives an aspect ratio.
PrefixFor(ratio) ==
  IF ratio = "16:9" THEN "landscape" ELSE IF ratio = "9:16" THEN "portrait" ELSE "other"
ProbeFailed(out) == out.exit # 0 \/ ~out.parsable \/ out.streams = <<>>

\* C1: a request whose token validates to a user who does not own the
\* record is answered 401, calls UpdateVideo never, and touches no storage:
\* no file under the assets root, no temporary file, no tool, no PutObject.
C1_NonOwnerRejected ==
  /\ NonOwner(th) =>
       /\ th.updates = 0 /\ th.created = {} /\ ~th.spilled
       /\ th.pc = "done" => th.status = StatusUnauthorized
  /\ NonOwner(vd) =>
       /\ vd.updates = 0 /\ ~vd.tmpCreated /\ ~vd.spilled
       /\ vd.tools = {} /\ vd.puts = <<>>
       /\ vd.pc = "done" => vd.status = StatusUnauthorized

\* C2: after a thumbnail upload answered 200 the record written has the URL
\* of the new file name, and the file under the assets root at that name
\* holds exactly the uploaded bytes.
C2_ThumbnailRoundTrip ==
  th.status = StatusOK =>
    /\ th.VideoMeta.thumbnailURL = <<"http://localhost:">> \o cfgPort \o <<"/assets/">> \o th.fileName
    /\ th.fileName \in DOMAIN assets
    /\ assets[th.fileName] = Upload(th.partLen)

\* C3: a thumbnail upload whose part has a content type outside
\* {image/jpeg, image/png}, or an unparsable one, creates no file under the
\* assets root and calls UpdateVideo never; once the identifier, token,
\* lookup and ownership checks have passed it is answered 400.
C3_BadThumbnailTypeRejected ==
  (th.pc # "idle" /\ HasPart(th.req, "thumbnail") /\ TypeOutside(th.req, ThumbnailWhitelist)) =>
    /\ th.created = {}
    /\ th.updates = 0
    /\ (th.pc = "done" /\ th.ownerOK) => th.status = StatusBadRequest
C3_Witness ==
  /\ th.pc = "done" /\ th.ownerOK
  /\ HasPart(th.req, "thumbnail") /\ TypeOutside(th.req, ThumbnailWhitelist)
  /\ th.status = StatusBadRequest

\* C4 as stated: every video upload whose part has a content type other
\* than video/mp4 is answered 400, with no temporary file created, no tool
\* run, no PutObject and no UpdateVideo.
C4_NonMP4Always400 ==
  (vd.pc = "done" /\ HasPart(vd.req, "video") /\ TypeOutside(vd.req, {<<"video", "/", "mp4">>})) =>
    /\ vd.status = StatusBadRequest
    /\ ~vd.tmpCreated /\ vd.tools = {} /\ vd.puts = <<>> /\ vd.updates = 0
\* C4 amended: a video upload whose part has a content type other than
\* video/mp4 never reaches os.CreateTemp, runs no tool, calls PutObject and
\* UpdateVideo never; once the identifier, token, lookup and ownership
\* checks have passed it is answered 400.
C4_NonMP4Rejected ==
  (vd.pc # "idle" /\ HasPart(vd.req, "video") /\ TypeOutside(vd.req, {<<"video", "/", "mp4">>})) =>
    /\ ~vd.tmpCreated /\ vd.tools = {} /\ vd.puts = <<>> /\ vd.updates = 0
    /\ (vd.pc = "done" /\ vd.ownerOK) => vd.status = StatusBadRequest
C4_Witness ==
  /\ vd.pc = "done" /\ vd.ownerOK
  /\ HasPart(vd.req, "video") /\ TypeOutside(vd.req, {<<"video", "/", "mp4">>})
  /\ vd.status = StatusBadRequest /\ ~vd.tmpCreated

\* C5: the prefix is a function of the probe result: first stream 16:9
\* gives landscape, 9:16 portrait, any other non-empty ratio other; a probe
\* with zero streams, a non-zero exit or unparsable output gives 500 with no
\* key built, no PutObject and no UpdateVideo.
C5_PrefixOfProbe ==
  "ffprobe" \in vd.tools =>
    IF ProbeFailed(vd.probe)
    THEN /\ vd.pc = "done" /\ vd.status = StatusInternalServerError
         /\ vd.fileName = <<>> /\ vd.puts = <<>> /\ vd.updates = 0
    ELSE vd.probe.streams[1] # "" => vd.prefix = PrefixFor(vd.probe.streams[1])
C5_Witness ==
  /\ vd.status = StatusOK
  /\ vd.probe.streams # <<>> /\ vd.probe.streams[1] = "9:16"
  /\ vd.prefix = "portrait"

\* The one object a video upload answered 200 has put, the record it wrote
\* and its response body.
VideoSuccessShape ==
  /\ Len(vd.puts) = 1
  /\ LET o == vd.puts[1]
     IN /\ o.bucket = cfgS3Bucket
        /\ Len(o.key) = 5
        /\ o.key[1] = PrefixFor(vd.probe.streams[1])
        /\ o.key[2] = "/" /\ o.key[3] \in RandomValues /\ o.key[4] = "=" /\ o.key[5] = ".mp4"
        /\ o.contentType = <<"video", "/", "mp4">>
        /\ o.body = FastStart(Upload(vd.partLen))
        /\ vd.videoDb.videoURL = cfgS3CfDistribution \o <<"/">> \o o.key
  /\ vd.body = VideoJSON(vd.videoDb)
\* C6 as stated: when the video upload answers 200, one object was put under
\* <prefix>/<name>.mp4 with type video/mp4 and the normalized file as body,
\* the stored record's Video URL is <base>/<key>, and the body is that record.
C6_VideoSuccess ==
  vd.status = StatusOK =>
    /\ VideoSuccessShape
    /\ vd.storedAtResponse.videoURL = cfgS3CfDistribution \o <<"/">> \o vd.puts[1].key
\* C6 amended: the same, where the record with that Video URL is the one
\* this request passed to UpdateVideo; the stored record is that record when
\* the response is written unless the concurrent thumbnail upload has
\* called UpdateVideo, and then it may be the record that upload passed.
C6_VideoSuccessWritten ==
  vd.status = StatusOK =>
    /\ VideoSuccessShape
    /\ \/ vd.storedAtResponse = vd.videoDb
       \/ th.updates > 0 /\ vd.storedAtResponse = th.VideoMeta
C6_Witness ==
  /\ vd.status = StatusOK
  /\ Len(vd.puts) = 1
  /\ vd.storedAtResponse = vd.videoDb

\* C7: for a body longer than 1 GiB the video handler reads at most 1 GiB,
\* copies at most 1 GiB to the temporary file, and does not answer 200.
C7_BodyCapped ==
  /\ vd.read <= MaxUploadBytes
  /\ vd.copied <= MaxUploadBytes
  /\ vd.bodyLen > MaxUploadBytes => vd.status # StatusOK

\* C8: once a step of a request has failed, the handler has returned: no
\* later step runs, UpdateVideo is not called and the answer is not 200.
C8_FailureAborts ==
  /\ th.failed # {} => th.pc = "done" /\ th.status # StatusOK /\ th.updates = 0
  /\ vd.failed # {} => vd.pc = "done" /\ vd.status # StatusOK /\ vd.updates = 0

\* C9: when the video handler has returned, neither its temporary file nor
\* the <temp>.processing file is on disk.
C9_NoTempLeft ==
  (vd.pc = "done" /\ vd.tmpName # <<>>) =>
    /\ vd.tmpName \notin DOMAIN tmpfs
    /\ vd.tmpName \o <<".processing">> \notin DOMAIN tmpfs

\* C10 as stated: when a thumbnail upload and a video upload for the same
\* record both answer 200, the stored record holds both new URLs.
C10_BothURLsKept ==
  (th.status = StatusOK /\ vd.status = StatusOK /\ th.videoID = vd.videoID) =>
    /\ db[th.videoID].thumbnailURL = <<"http://localhost:">> \o cfgPort \o <<"/assets/">> \o th.fileName
    /\ db[vd.videoID].videoURL = cfgS3CfDistribution \o <<"/">> \o vd.fileName
\* C10 amended: the stored record is then the whole record one of the two
\* passed to UpdateVideo (last write wins): it holds that upload's new URL,
\* and in the other field what that upload read at its GetVideo.
C10_LastWriteWins ==
  (th.status = StatusOK /\ vd.status = StatusOK /\ th.videoID = vd.videoID) =>
    /\ db[th.videoID] \in {th.VideoMeta, vd.videoDb}
    /\ th.VideoMeta.thumbnailURL = <<"http://localhost:">> \o cfgPort \o <<"/assets/">> \o th.fileName
    /\ vd.videoDb.videoURL = cfgS3CfDistribution \o <<"/">> \o vd.fileName
C10_Witness ==
  /\ th.status = StatusOK /\ vd.status = StatusOK /\ th.videoID = vd.videoID
  /\ db[th.videoID] = th.VideoMeta
  /\ db[th.videoID].videoURL # vd.videoDb.videoURL
====
